---- MODULE Spec2Model ----
(***************************************************************************)
(* Model of the Bitcoin SOPR dashboard repository:                         *)
(*   docs/sample_data.py                 the sample data provider          *)
(*   bitcoin-sopr-dashboard/src/queries.py   the data access layer         *)
(*   bitcoin-sopr-dashboard/etl/load_prices.py   the price ingestion job   *)
(*   bitcoin-sopr-dashboard/main.py      the dashboard's data loading      *)
(*                                                                         *)
(* Real numbers are fixed-point integers in units of 1e-5 (SOPR 1.0 is     *)
(* 100000).  Calendar dates held in data frames are proleptic Gregorian    *)
(* ordinals (Python's date.toordinal); date strings "YYYY-MM-DD" are       *)
(* records [y, m, d].                                                      *)
(***************************************************************************)
EXTENDS Integers, Sequences, FiniteSets, TLC

VARIABLES
    today,              \* datetime.now().date(), as a record [y, m, d]
    uniformOut,         \* the generator function of the random module after seed(42)
    rngPos,             \* state of the process-wide random generator
    SAMPLE_SOPR_DATA,   \* docs/sample_data.py module-level frame
    SAMPLE_PRICES,      \* docs/sample_data.py module-level frame
    table,              \* the warehouse table config.TABLE_DAILY_PRICES
    call,               \* the data access layer call in progress and its outcome
    prev,               \* the call before it, when the caller repeated the call
    render,             \* the dashboard render in progress and its outcome
    jpc,                \* ingestion runs: position of each run in main()
    existing_rows,      \* ingestion runs: main()'s local existing_rows
    response,           \* ingestion runs: main()'s local response
    df,                 \* ingestion runs: main()'s local df
    final_count,        \* ingestion runs: main()'s local final_count
    jlog,               \* ingestion runs: what the run has done so far
    gpc,                \* generator calls: position in generate_sample_sopr_data
    gdays,              \* generator calls: the argument days
    gcurrent,           \* generator calls: the local current
    gvalues,            \* generator calls: the local sopr_values
    gresult,            \* generator calls: the returned frame
    gstart              \* generator calls: the random generator state found at entry

dataVars == <<today, uniformOut, SAMPLE_SOPR_DATA, SAMPLE_PRICES>>
queryVars == <<call, prev, render>>
jobVars == <<jpc, existing_rows, response, df, final_count, jlog>>
genVars == <<gpc, gdays, gcurrent, gvalues, gresult, gstart>>
vars == <<today, uniformOut, rngPos, SAMPLE_SOPR_DATA, SAMPLE_PRICES, table,
          call, prev, render, jpc, existing_rows, response, df, final_count, jlog,
          gpc, gdays, gcurrent, gvalues, gresult, gstart>>

(***************************************************************************)
(* Bounds of the model.                                                    *)
(***************************************************************************)
MaxYear == 2024         \* date strings range over the years MaxYear-1 .. MaxYear
Period == 3             \* period of the modelled random stream
MaxDays == 6            \* largest day_count passed to the generator
MaxBars == 2            \* number of days the market-data source has bars for

(***************************************************************************)
(* Program constants, in fixed-point units where they are reals.           *)
(***************************************************************************)
SampleDays == 30        \* generate_sample_sopr_data(30), periods=30, range(30)
WalkStart == 100000     \* current = 1.0
DeltaMax == 3000        \* random.uniform(-0.03, 0.03)
SoprLo == 85000         \* max(0.85, ...)
SoprHi == 115000        \* min(1.15, ...)
RoundUnit == 10         \* round(current, 4): one unit of the 4th decimal
PriceBase == 42000      \* 42000 + i * 100
PriceStep == 100

(***************************************************************************)
(* Calendar: datetime.date, datetime.strptime('%Y-%m-%d'), date ordinals.  *)
(***************************************************************************)
Years == (MaxYear - 1)..MaxYear
Months == {2, 3}
Days == {1, 29, 30}
DateStrings == [y : Years, m : Months, d : Days]

IsLeap(y) == (y % 4 = 0) /\ ((y % 100 # 0) \/ (y % 400 = 0))

DaysInMonth(y, m) ==
    IF m = 2 THEN (IF IsLeap(y) THEN 29 ELSE 28)
    ELSE IF m \in {4, 6, 9, 11} THEN 30 ELSE 31

RECURSIVE DaysBeforeMonth(_, _)
DaysBeforeMonth(y, m) ==
    IF m <= 1 THEN 0 ELSE DaysBeforeMonth(y, m - 1) + DaysInMonth(y, m - 1)

DaysBeforeYear(y) ==
    LET p == y - 1 IN p * 365 + (p \div 4) - (p \div 100) + (p \div 400)

\* date(y, m, d).toordinal()
Ordinal(s) == DaysBeforeYear(s.y) + DaysBeforeMonth(s.y, s.m) + s.d

\* datetime.strptime(s, '%Y-%m-%d') succeeds
StrptimeOk(s) ==
    /\ s.m \in 1..12
    /\ s.d \in 1..DaysInMonth(s.y, s.m)

\* pandas parses the string operand of a comparison with a datetime column
PandasParses(s) == StrptimeOk(s)

ValidDates == {s \in DateStrings : StrptimeOk(s)}
TodayChoices == {[y |-> 2024, m |-> 3, d |-> 1]}

(***************************************************************************)
(* docs/sample_data.py                                                     *)
(***************************************************************************)
Deltas == {-DeltaMax, 1235, DeltaMax}

Max(a, b) == IF a >= b THEN a ELSE b
Min(a, b) == IF a <= b THEN a ELSE b

\* faulty variant: the upper bound is not applied
Clamp_NoUpper(x) == Max(SoprLo, x)

\* max(0.85, min(1.15, x))
Clamp(x) == Max(SoprLo, Min(SoprHi, x))

\* round(x, 4): to the nearest 1e-4, ties to the even digit
Round4(x) ==
    LET q == x \div RoundUnit
        r == x % RoundUnit
    IN  IF 2 * r < RoundUnit THEN q * RoundUnit
        ELSE IF 2 * r > RoundUnit THEN (q + 1) * RoundUnit
        ELSE IF q % 2 = 0 THEN q * RoundUnit ELSE (q + 1) * RoundUnit

\* the frame of lines 27-30: dates[i] = end_date - i, paired with sopr_values
SoprFrame(t, values) ==
    [i \in 1..Len(values) |-> [date |-> Ordinal(t) - (i - 1), sopr |-> values[i]]]

\* the loop of lines 20-25 run alone from random.seed(42)
RECURSIVE Walk(_, _, _, _)
Walk(out, n, pos, current) ==
    IF n = 0 THEN <<>>
    ELSE LET next == Clamp(current + out[pos % Period])
         IN  <<Round4(next)>> \o Walk(out, n - 1, pos + 1, next)

generate_sample_sopr_data(out, t, days) == SoprFrame(t, Walk(out, days, 0, WalkStart))

\* faulty variant: the range of dates ends the day before today
SamplePricesFrame_EndsYesterday(t) ==
    [i \in 1..SampleDays |->
        [date |-> Ordinal(t) - SampleDays + i - 1,
         price_usd |-> PriceBase + (i - 1) * PriceStep]]

\* lines 36-39: date_range(end=today, periods=30), 42000 + i * 100
SamplePricesFrame(t) ==
    [i \in 1..SampleDays |->
        [date |-> Ordinal(t) - SampleDays + i,
         price_usd |-> PriceBase + (i - 1) * PriceStep]]

(***************************************************************************)
(* bitcoin-sopr-dashboard/src/queries.py                                   *)
(*                                                                         *)
(* A call returns a record: kind is "rows" for a returned frame or the     *)
(* class of the exception that leaves the function; attempts counts the    *)
(* executions of the live try block, issued the client.query calls,        *)
(* fallbacks the self-invocations with use_sample=True and depth the       *)
(* deepest frame of the function on the stack.                             *)
(***************************************************************************)
\* how the live try block may end: "ok", or the exception raised in it
\*   FileNotFoundError   open(sql_path) fails, before any query is sent
\*   GoogleCloudError    client.query / to_dataframe fails
\*   Exception           any other exception (here: building the client)
LiveOutcomes == {"ok", "GoogleCloudError", "FileNotFoundError", "Exception"}
QuerySent == {"ok", "GoogleCloudError"}

Returned(rows, src) ==
    [kind |-> "rows", rows |-> rows, served |-> src,
     attempts |-> 0, issued |-> 0, fallbacks |-> 0, depth |-> 1]

Raised(cls) ==
    [kind |-> cls, rows |-> <<>>, served |-> "none",
     attempts |-> 0, issued |-> 0, fallbacks |-> 0, depth |-> 1]

\* the live try block was run once and ended as `outcome`
Attempted(res, outcome) ==
    [res EXCEPT !.attempts = @ + 1,
                !.issued = @ + (IF outcome \in QuerySent THEN 1 ELSE 0)]

\* faulty variant: the except clause lets the exception leave the function
FellBack_Reraise(inner, outcome) == Attempted(Raised(outcome), outcome)

\* an except clause returned the result of the call with use_sample=True
FellBack(inner, outcome) ==
    Attempted([inner EXCEPT !.fallbacks = @ + 1, !.depth = @ + 1], outcome)

\* faulty variant: the upper bound of the mask is exclusive
InRange_Exclusive(sample, start_date, end_date) ==
    LET mask(r) == r.date >= Ordinal(start_date) /\ r.date < Ordinal(end_date)
    IN  SelectSeq(sample, mask)

\* sample[mask].reset_index(drop=True) with
\* mask = (sample['date'] >= start_date) & (sample['date'] <= end_date)
InRange(sample, start_date, end_date) ==
    LET mask(r) == r.date >= Ordinal(start_date) /\ r.date <= Ordinal(end_date)
    IN  SelectSeq(sample, mask)

\* result.rename(columns={'price_usd': 'price'})
RenamePrice(frame) ==
    [i \in 1..Len(frame) |-> [date |-> frame[i].date, price |-> frame[i].price_usd]]

\* lines 39-44: the sample branch of query_sopr; the comparison of the column
\* with a string that is no date raises pandas' TypeError
SoprSample(start_date, end_date) ==
    IF PandasParses(start_date) /\ PandasParses(end_date)
    THEN Returned(InRange(SAMPLE_SOPR_DATA, start_date, end_date), "sample")
    ELSE Raised("TypeError")

\* faulty variant: a live frame without rows is treated as a failure
query_sopr_FallbackOnEmpty(start_date, end_date, use_sample, outcome, live) ==
    IF use_sample
    THEN SoprSample(start_date, end_date)
    ELSE IF ~(StrptimeOk(start_date) /\ StrptimeOk(end_date))
    THEN Raised("ValueError")
    ELSE IF outcome = "ok" /\ live # <<>>
    THEN Attempted(Returned(live, "live"), outcome)
    ELSE FellBack(SoprSample(start_date, end_date), outcome)

RECURSIVE query_sopr(_, _, _, _, _)
query_sopr(start_date, end_date, use_sample, outcome, live) ==
    IF use_sample
    THEN SoprSample(start_date, end_date)
    ELSE IF ~(StrptimeOk(start_date) /\ StrptimeOk(end_date))
    THEN Raised("ValueError")
    ELSE CASE outcome = "ok" -> Attempted(Returned(live, "live"), outcome)
           [] outcome = "GoogleCloudError" ->
                FellBack(query_sopr(start_date, end_date, TRUE, outcome, live), outcome)
           [] outcome = "FileNotFoundError" ->
                FellBack(query_sopr(start_date, end_date, TRUE, outcome, live), outcome)
           [] OTHER ->
                FellBack(query_sopr(start_date, end_date, TRUE, outcome, live), outcome)

\* select date, close as price from table
\* where date between @start_date and @end_date order by date desc
RECURSIVE OrderByDateDesc(_)
OrderByDateDesc(rows) ==
    IF rows = {} THEN <<>>
    ELSE LET top == CHOOSE r \in rows :
                        \A o \in rows : r.date > o.date
                                        \/ (r.date = o.date /\ r.close >= o.close)
         IN  <<[date |-> top.date, price |-> top.close]>> \o OrderByDateDesc(rows \ {top})

PriceQuery(start_date, end_date) ==
    OrderByDateDesc({r \in table.rows :
                        r.date >= Ordinal(start_date) /\ r.date <= Ordinal(end_date)})

\* lines 109-118: the sample branch of query_prices
PriceSample(start_date, end_date) ==
    IF PandasParses(start_date) /\ PandasParses(end_date)
    THEN Returned(RenamePrice(InRange(SAMPLE_PRICES, start_date, end_date)), "sample")
    ELSE Raised("TypeError")

\* faulty variant: the date validation sits inside the live try block, so
\* its ValueError is caught by `except Exception`
query_prices_ValidateInTry(start_date, end_date, use_sample, outcome) ==
    IF use_sample
    THEN PriceSample(start_date, end_date)
    ELSE IF ~(StrptimeOk(start_date) /\ StrptimeOk(end_date))
    THEN FellBack(PriceSample(start_date, end_date), "Exception")
    ELSE IF outcome = "ok"
    THEN Attempted(Returned(PriceQuery(start_date, end_date), "live"), outcome)
    ELSE FellBack(PriceSample(start_date, end_date), outcome)

RECURSIVE query_prices(_, _, _, _)
query_prices(start_date, end_date, use_sample, outcome) ==
    IF use_sample
    THEN PriceSample(start_date, end_date)
    ELSE IF ~(StrptimeOk(start_date) /\ StrptimeOk(end_date))
    THEN Raised("ValueError")
    ELSE CASE outcome = "ok" ->
                Attempted(Returned(PriceQuery(start_date, end_date), "live"), outcome)
           [] outcome = "GoogleCloudError" ->
                FellBack(query_prices(start_date, end_date, TRUE, outcome), outcome)
           [] OTHER ->
                FellBack(query_prices(start_date, end_date, TRUE, outcome), outcome)

\* frames the external SOPR query may return (sql/sopr_query.sql is not modelled)
LiveSoprFrames ==
    {<<>>, <<[date |-> Ordinal(today), sopr |-> WalkStart]>>}

\* exceptions the live try block of query_prices can end with: it opens no file
PriceOutcomes == LiveOutcomes \ {"FileNotFoundError"}

NoCall == [fn |-> "none"]
NoRender == [state |-> "none"]

\* faulty variant: the sample branch filters the module-level frame itself
\* instead of a copy of it
QuerySopr_FilterInPlace ==
    /\ call = NoCall /\ render = NoRender
    /\ \E s \in DateStrings, e \in DateStrings, u \in BOOLEAN,
          o \in LiveOutcomes, live \in LiveSoprFrames :
          /\ call' = [fn |-> "query_sopr", start_date |-> s, end_date |-> e,
                      use_sample |-> u, outcome |-> o, live |-> live,
                      res |-> query_sopr(s, e, u, o, live)]
          /\ SAMPLE_SOPR_DATA' = IF call'.res.served = "sample"
                                  THEN call'.res.rows ELSE SAMPLE_SOPR_DATA
    /\ UNCHANGED <<today, uniformOut, SAMPLE_PRICES, rngPos, table, prev, render,
                   jobVars, genVars>>

\* a caller invokes query_sopr and receives its result or its exception
QuerySopr ==
    /\ call = NoCall /\ render = NoRender
    /\ \E s \in DateStrings, e \in DateStrings, u \in BOOLEAN,
          o \in LiveOutcomes, live \in LiveSoprFrames :
          call' = [fn |-> "query_sopr", start_date |-> s, end_date |-> e,
                   use_sample |-> u, outcome |-> o, live |-> live,
                   res |-> query_sopr(s, e, u, o, live)]
    /\ UNCHANGED <<dataVars, rngPos, table, prev, render, jobVars, genVars>>

\* a caller invokes query_prices; a live query succeeds only on an existing table
QueryPrices ==
    /\ call = NoCall /\ render = NoRender
    /\ \E s \in DateStrings, e \in DateStrings, u \in BOOLEAN, o \in PriceOutcomes :
          /\ (o = "ok") => table.exists
          /\ call' = [fn |-> "query_prices", start_date |-> s, end_date |-> e,
                      use_sample |-> u, outcome |-> o, live |-> <<>>,
                      res |-> query_prices(s, e, u, o)]
    /\ UNCHANGED <<dataVars, rngPos, table, prev, render, jobVars, genVars>>

\* the caller makes the same call again: same function, same arguments, the
\* warehouse as it was; the live attempt of the new call ends in its own way
RepeatCall ==
    /\ call # NoCall /\ prev = NoCall
    /\ \E o \in LiveOutcomes :
          /\ (call.fn = "query_prices") => (o \in PriceOutcomes /\ ((o = "ok") => table.exists))
          /\ call' = [call EXCEPT
                        !.outcome = o,
                        !.res = IF call.fn = "query_sopr"
                                THEN query_sopr(call.start_date, call.end_date,
                                                call.use_sample, o, call.live)
                                ELSE query_prices(call.start_date, call.end_date,
                                                  call.use_sample, o)]
    /\ prev' = call
    /\ UNCHANGED <<dataVars, rngPos, table, render, jobVars, genVars>>

(***************************************************************************)
(* bitcoin-sopr-dashboard/main.py: the data loading of one script run.     *)
(* The st.cache_data wrappers return the value of the wrapped call.        *)
(***************************************************************************)
fetch_sopr_data(start_date, end_date, use_sample, outcome, live) ==
    query_sopr(start_date, end_date, use_sample, outcome, live)

fetch_price_data(start_date, end_date, use_sample, outcome) ==
    query_prices(start_date, end_date, use_sample, outcome)

\* lines 245-255 and 422: the branch the page takes after loading
Loaded(sopr, prices) ==
    IF sopr.kind # "rows" \/ prices.kind # "rows" THEN "error"
    ELSE IF sopr.rows # <<>> THEN "metrics" ELSE "warning"

\* ((first / last) - 1) * 100, a percentage in units of 1e-4
PercentChange(first, last) == ((first * 10000) \div last - 10000) * 100

NoMetrics == [current_sopr |-> 0, current_price |-> 0, price_change |-> 0]

\* lines 261-272: the metrics row reads the frames by position, as returned
Metrics(sopr_df, prices_df) ==
    LET sopr == sopr_df.rows
        prices == prices_df.rows
    IN  [current_sopr |-> IF Len(sopr) > 0 THEN sopr[1].sopr ELSE 0,
         current_price |-> IF prices # <<>> THEN prices[1].price ELSE 0,
         price_change |-> IF prices # <<>> /\ Len(prices) > 1
                          THEN PercentChange(prices[1].price, prices[Len(prices)].price)
                          ELSE 0]

\* one run of the page: the date widgets give start <= end <= today
Render ==
    /\ call = NoCall /\ render = NoRender
    /\ \E s \in ValidDates, e \in ValidDates, u \in BOOLEAN,
          os \in LiveOutcomes, op \in PriceOutcomes, live \in LiveSoprFrames :
          /\ Ordinal(s) <= Ordinal(e) /\ Ordinal(e) <= Ordinal(today)
          /\ (op = "ok") => table.exists
          /\ LET sopr_df == fetch_sopr_data(s, e, u, os, live)
                 prices_df == fetch_price_data(s, e, FALSE, op)
             IN  render' = [state |-> Loaded(sopr_df, prices_df),
                            start_date |-> s, end_date |-> e,
                            use_sample_sopr |-> u,
                            sopr_outcome |-> os, price_outcome |-> op,
                            sopr_df |-> sopr_df, prices_df |-> prices_df,
                            metrics |-> IF Loaded(sopr_df, prices_df) = "metrics"
                                        THEN Metrics(sopr_df, prices_df)
                                        ELSE NoMetrics]
    /\ UNCHANGED <<dataVars, rngPos, table, call, prev, jobVars, genVars>>

\* the caller has consumed the result; the layer keeps nothing of the call
Finish ==
    /\ call # NoCall \/ render # NoRender
    /\ call' = NoCall /\ prev' = NoCall /\ render' = NoRender
    /\ UNCHANGED <<dataVars, rngPos, table, jobVars, genVars>>

(***************************************************************************)
(* bitcoin-sopr-dashboard/etl/load_prices.py                               *)
(***************************************************************************)
\* two runs of the script
Runs == {1, 2}

NoTable == [exists |-> FALSE, rows |-> {}]

\* daily bars the market-data source may return, one per day at most: Date
\* carries a time of day, Close is the close of that day
FetchDates == {Ordinal(today) - k : k \in 0..(MaxBars - 1)}
ClosePrice(d) == 1 + (Ordinal(today) - d)
RawBars == {[Date |-> [day |-> d, time |-> 0], Close |-> ClosePrice(d)] : d \in FetchDates}
FetchResults == SUBSET RawBars
TableRows == {[date |-> d, close |-> ClosePrice(d)] : d \in FetchDates}

\* lines 59-76: rename, select the columns, keep the date part of Date
\* (of the renamed columns the model keeps date and close)
Transform(bars) == {[date |-> b.Date.day, close |-> b.Close] : b \in bars}

\* lines 33-40: the row count, or 0 when get_table raises NotFound
check_existing_data(t) == IF t.exists THEN Cardinality(t.rows) ELSE 0

\* what the operator may type at the prompt, as sequences of characters
Responses ==
    {<<"y", "e", "s">>, <<"y">>, <<"Y">>, <<" ", "Y", "e", "s", " ">>,
     <<"n", "o">>, <<"N">>, <<>>, <<" ">>, <<"y", "e", "a", "h">>, <<"y", " ">>}

IsSpace(c) == c = " "

\* str.lower() on the characters that occur
Lower(txt) ==
    [i \in 1..Len(txt) |->
        CASE txt[i] = "Y" -> "y"
          [] txt[i] = "E" -> "e"
          [] txt[i] = "S" -> "s"
          [] txt[i] = "N" -> "n"
          [] txt[i] = "O" -> "o"
          [] OTHER -> txt[i]]

\* str.strip(): drop the leading and the trailing whitespace
RECURSIVE LStrip(_)
LStrip(txt) ==
    IF txt # <<>> /\ IsSpace(Head(txt)) THEN LStrip(Tail(txt)) ELSE txt

RECURSIVE RStrip(_)
RStrip(txt) ==
    IF txt # <<>> /\ IsSpace(txt[Len(txt)])
    THEN RStrip(SubSeq(txt, 1, Len(txt) - 1)) ELSE txt

Strip(txt) == RStrip(LStrip(txt))

\* faulty variant: any answer that starts with "y" is taken as a yes
Affirmative_Prefix(resp) == resp # <<>> /\ Head(resp) = "y"

\* response not in ["yes", "y"] is false
Affirmative(resp) == resp \in {<<"y", "e", "s">>, <<"y">>}

Terminal == {"Cancelled", "NoData", "Failed", "Complete"}

NewLog(t) ==
    [before |-> t, asked |-> 0, typed |-> <<>>, fetches |-> 0, loads |-> 0, landed |-> 0,
     written |-> 0, replaced |-> 0, verifies |-> 0, raised |-> "none"]

\* no other run is between its start and its end
Alone(r) == \A o \in Runs \ {r} : jpc[o] = "idle"

\* lines 122-126: validate_config() raises when GCP_PROJECT_ID is not set
Start(r) ==
    /\ jpc[r] = "idle"
    /\ \E configured \in BOOLEAN :
          /\ jpc' = [jpc EXCEPT ![r] = IF configured THEN "check" ELSE "Failed"]
          /\ jlog' = [jlog EXCEPT ![r] =
                        [NewLog(table) EXCEPT
                            !.raised = IF configured THEN "none" ELSE "config"]]
    /\ UNCHANGED <<dataVars, rngPos, table, queryVars,
                   existing_rows, response, df, final_count, genVars>>

\* faulty variant: the prompt is shown for a count of zero as well
Check_AsksAlways(r) ==
    /\ jpc[r] = "check"
    /\ existing_rows' = [existing_rows EXCEPT ![r] = check_existing_data(table)]
    /\ jpc' = [jpc EXCEPT ![r] = IF existing_rows'[r] >= 0 THEN "confirm" ELSE "fetch"]
    /\ UNCHANGED <<dataVars, rngPos, table, queryVars,
                   response, df, final_count, jlog, genVars>>

\* lines 129-131: count the rows; more than zero leads to the prompt
Check(r) ==
    /\ jpc[r] = "check"
    /\ existing_rows' = [existing_rows EXCEPT ![r] = check_existing_data(table)]
    /\ jpc' = [jpc EXCEPT ![r] = IF existing_rows'[r] > 0 THEN "confirm" ELSE "fetch"]
    /\ UNCHANGED <<dataVars, rngPos, table, queryVars,
                   response, df, final_count, jlog, genVars>>

\* lines 133-136: the prompt and its answer
Confirm(r) ==
    /\ jpc[r] = "confirm"
    /\ \E typed \in Responses :
          /\ response' = [response EXCEPT ![r] = Lower(Strip(typed))]
          /\ jlog' = [jlog EXCEPT ![r].asked = @ + 1, ![r].typed = typed]
          /\ jpc' = [jpc EXCEPT ![r] =
                        IF Affirmative(response'[r]) THEN "fetch" ELSE "Cancelled"]
    /\ UNCHANGED <<dataVars, rngPos, table, queryVars,
                   existing_rows, df, final_count, genVars>>

\* faulty variant: the df.empty test is missing
FetchOk_NoEmptyTest(r) ==
    /\ jpc[r] = "fetch"
    /\ \E bars \in FetchResults : df' = [df EXCEPT ![r] = Transform(bars)]
    /\ jpc' = [jpc EXCEPT ![r] = "load"]
    /\ jlog' = [jlog EXCEPT ![r].fetches = @ + 1]
    /\ UNCHANGED <<dataVars, rngPos, table, queryVars,
                   existing_rows, response, final_count, genVars>>

\* lines 139-146: fetch_btc_prices returns bars, possibly none
FetchOk(r) ==
    /\ jpc[r] = "fetch"
    /\ \E bars \in FetchResults :
          /\ df' = [df EXCEPT ![r] = Transform(bars)]
          /\ jpc' = [jpc EXCEPT ![r] = IF df'[r] = {} THEN "NoData" ELSE "load"]
    /\ jlog' = [jlog EXCEPT ![r].fetches = @ + 1]
    /\ UNCHANGED <<dataVars, rngPos, table, queryVars,
                   existing_rows, response, final_count, genVars>>

\* line 142: fetch_btc_prices raises; the exception leaves main()
FetchRaises(r) ==
    /\ jpc[r] = "fetch"
    /\ jpc' = [jpc EXCEPT ![r] = "Failed"]
    /\ jlog' = [jlog EXCEPT ![r].fetches = @ + 1, ![r].raised = "fetch"]
    /\ UNCHANGED <<dataVars, rngPos, table, queryVars,
                   existing_rows, response, df, final_count, genVars>>

\* faulty variant: WRITE_APPEND instead of WRITE_TRUNCATE
LoadOk_Append(r) ==
    /\ jpc[r] = "load"
    /\ table' = [exists |-> TRUE, rows |-> table.rows \cup df[r]]
    /\ jpc' = [jpc EXCEPT ![r] = "verify"]
    /\ jlog' = [jlog EXCEPT ![r].loads = @ + 1, ![r].landed = @ + 1,
                            ![r].written = @ + Cardinality(df[r]),
                            ![r].replaced = Cardinality(table.rows)]
    /\ UNCHANGED <<dataVars, rngPos, queryVars,
                   existing_rows, response, df, final_count, genVars>>

\* lines 107-115 with WRITE_TRUNCATE: the frame replaces the table's rows
LoadOk(r) ==
    /\ jpc[r] = "load"
    /\ table' = [exists |-> TRUE, rows |-> df[r]]
    /\ jpc' = [jpc EXCEPT ![r] = "verify"]
    /\ jlog' = [jlog EXCEPT ![r].loads = @ + 1, ![r].landed = @ + 1,
                            ![r].written = @ + Cardinality(df[r]),
                            ![r].replaced = Cardinality(table.rows)]
    /\ UNCHANGED <<dataVars, rngPos, queryVars,
                   existing_rows, response, df, final_count, genVars>>

\* faulty variant: the exception of the load is caught and main() goes on
LoadRaises_Swallowed(r) ==
    /\ jpc[r] = "load"
    /\ table' = table
    /\ jlog' = [jlog EXCEPT ![r].loads = @ + 1, ![r].raised = "load"]
    /\ jpc' = [jpc EXCEPT ![r] = "verify"]
    /\ UNCHANGED <<dataVars, rngPos, queryVars,
                   existing_rows, response, df, final_count, genVars>>

\* lines 114-115: the load job raises; the warehouse applies a load job as a
\* whole or not at all, and job.result() may raise on either side of that
LoadRaises(r) ==
    /\ jpc[r] = "load"
    /\ \E committed \in BOOLEAN :
          /\ table' = IF committed THEN [exists |-> TRUE, rows |-> df[r]] ELSE table
          /\ jlog' = [jlog EXCEPT ![r].loads = @ + 1,
                        ![r].landed = @ + (IF committed THEN 1 ELSE 0),
                        ![r].written = @ + (IF committed THEN Cardinality(df[r]) ELSE 0),
                        ![r].replaced = IF committed THEN Cardinality(table.rows) ELSE @,
                        ![r].raised = "load"]
    /\ jpc' = [jpc EXCEPT ![r] = "Failed"]
    /\ UNCHANGED <<dataVars, rngPos, queryVars,
                   existing_rows, response, df, final_count, genVars>>

\* lines 152-153: count again and report
Verify(r) ==
    /\ jpc[r] = "verify"
    /\ final_count' = [final_count EXCEPT ![r] = check_existing_data(table)]
    /\ jpc' = [jpc EXCEPT ![r] = "Complete"]
    /\ jlog' = [jlog EXCEPT ![r].verifies = @ + 1]
    /\ UNCHANGED <<dataVars, rngPos, table, queryVars,
                   existing_rows, response, df, genVars>>

\* the process of the run ends; its locals are gone
Exit(r) ==
    /\ jpc[r] \in Terminal
    /\ jpc' = [jpc EXCEPT ![r] = "idle"]
    /\ existing_rows' = [existing_rows EXCEPT ![r] = 0]
    /\ response' = [response EXCEPT ![r] = <<>>]
    /\ df' = [df EXCEPT ![r] = {}]
    /\ final_count' = [final_count EXCEPT ![r] = 0]
    /\ jlog' = [jlog EXCEPT ![r] = NewLog(NoTable)]
    /\ UNCHANGED <<dataVars, rngPos, table, queryVars, genVars>>

(***************************************************************************)
(* docs/sample_data.py: generate_sample_sopr_data, statement by statement. *)
(* The random module is one generator shared by the whole process: after   *)
(* random.seed(42) it stands at position 0 of the stream uniformOut, and   *)
(* every random.uniform moves it one position on.                          *)
(***************************************************************************)
\* two calls of the generator
Callers == {1, 2}

\* no other call of the generator is between its entry and its return
NoOtherCall(c) == \A o \in Callers \ {c} : gpc[o] \in {"idle", "done"}

\* line 8: entry with the argument days
Call(c) ==
    /\ gpc[c] \in {"idle", "done"}
    /\ \E days \in 1..MaxDays : gdays' = [gdays EXCEPT ![c] = days]
    /\ gpc' = [gpc EXCEPT ![c] = "seed"]
    /\ gstart' = [gstart EXCEPT ![c] = rngPos]
    /\ gvalues' = [gvalues EXCEPT ![c] = <<>>]
    /\ gresult' = [gresult EXCEPT ![c] = <<>>]
    /\ gcurrent' = [gcurrent EXCEPT ![c] = WalkStart]
    /\ UNCHANGED <<dataVars, rngPos, table, queryVars, jobVars>>

\* faulty variant: the generator is not seeded again
SeedRandom_NoSeed(c) ==
    /\ gpc[c] = "seed"
    /\ rngPos' = rngPos
    /\ gcurrent' = [gcurrent EXCEPT ![c] = WalkStart]
    /\ gvalues' = [gvalues EXCEPT ![c] = <<>>]
    /\ gpc' = [gpc EXCEPT ![c] = "loop"]
    /\ UNCHANGED <<dataVars, table, queryVars, jobVars, gdays, gresult, gstart>>

\* lines 13-21: random.seed(42); sopr_values = []; current = 1.0
SeedRandom(c) ==
    /\ gpc[c] = "seed"
    /\ rngPos' = 0
    /\ gcurrent' = [gcurrent EXCEPT ![c] = WalkStart]
    /\ gvalues' = [gvalues EXCEPT ![c] = <<>>]
    /\ gpc' = [gpc EXCEPT ![c] = "loop"]
    /\ UNCHANGED <<dataVars, table, queryVars, jobVars, gdays, gresult, gstart>>

\* lines 22-25: one iteration of the loop
Draw(c) ==
    /\ gpc[c] = "loop"
    /\ Len(gvalues[c]) < gdays[c]
    /\ LET change == uniformOut[rngPos]
           current == Clamp(gcurrent[c] + change)
       IN  /\ gcurrent' = [gcurrent EXCEPT ![c] = current]
           /\ gvalues' = [gvalues EXCEPT ![c] = Append(@, Round4(current))]
    /\ rngPos' = (rngPos + 1) % Period
    /\ UNCHANGED <<dataVars, table, queryVars, jobVars, gpc, gdays, gresult, gstart>>

\* lines 27-30: the frame is returned
Return(c) ==
    /\ gpc[c] = "loop"
    /\ Len(gvalues[c]) = gdays[c]
    /\ gresult' = [gresult EXCEPT ![c] = SoprFrame(today, gvalues[c])]
    /\ gpc' = [gpc EXCEPT ![c] = "done"]
    /\ UNCHANGED <<dataVars, rngPos, table, queryVars, jobVars,
                   gdays, gcurrent, gvalues, gstart>>

\* other code of the process draws a random number
OtherDraw ==
    /\ rngPos' = (rngPos + 1) % Period
    /\ UNCHANGED <<dataVars, table, queryVars, jobVars, genVars>>

(***************************************************************************)
(* Initial states: the modules are imported, nothing is running.           *)
(***************************************************************************)
Streams == [0..(Period - 1) -> Deltas]

\* one stream of the random module, used where the values do not matter
SampleStream == [p \in 0..(Period - 1) |->
                    IF p = 0 THEN DeltaMax ELSE IF p = 1 THEN -DeltaMax ELSE 1235]

\* import of docs/sample_data.py on the day t with the stream out
Imported(out, t) ==
    /\ today = t
    /\ uniformOut = out
    /\ SAMPLE_SOPR_DATA = generate_sample_sopr_data(out, t, SampleDays)
    /\ SAMPLE_PRICES = SamplePricesFrame(t)
    /\ rngPos = SampleDays % Period

NothingRunning ==
    /\ call = NoCall
    /\ prev = NoCall
    /\ render = NoRender
    /\ jpc = [r \in Runs |-> "idle"]
    /\ existing_rows = [r \in Runs |-> 0]
    /\ response = [r \in Runs |-> <<>>]
    /\ df = [r \in Runs |-> {}]
    /\ final_count = [r \in Runs |-> 0]
    /\ jlog = [r \in Runs |-> NewLog(NoTable)]
    /\ gpc = [c \in Callers |-> "idle"]
    /\ gdays = [c \in Callers |-> 1]
    /\ gcurrent = [c \in Callers |-> WalkStart]
    /\ gvalues = [c \in Callers |-> <<>>]
    /\ gresult = [c \in Callers |-> <<>>]
    /\ gstart = [c \in Callers |-> 0]

\* the data access layer over a price table left by earlier ingestion runs
InitQuery ==
    /\ \E t \in TodayChoices : Imported(SampleStream, t)
    /\ table \in {NoTable} \cup {[exists |-> TRUE, rows |-> rs] : rs \in SUBSET TableRows}
    /\ NothingRunning

NextQuery == QuerySopr \/ QueryPrices \/ RepeatCall \/ Render \/ Finish

SpecQuery == InitQuery /\ [][NextQuery]_vars

\* ingestion runs, one after the other, starting without a table
InitJob ==
    /\ \E t \in TodayChoices : Imported(SampleStream, t)
    /\ table = NoTable
    /\ NothingRunning

NextJob ==
    \E r \in Runs :
        \/ Alone(r) /\ Start(r)
        \/ Check(r)
        \/ Confirm(r)
        \/ FetchOk(r)
        \/ FetchRaises(r)
        \/ LoadOk(r)
        \/ LoadRaises(r)
        \/ Verify(r)
        \/ Exit(r)

SpecJob == InitJob /\ [][NextJob]_vars

\* calls of the generator, one after the other, for every stream
InitGen ==
    /\ \E out \in Streams, t \in TodayChoices : Imported(out, t)
    /\ table = NoTable
    /\ NothingRunning

NextGen ==
    \/ \E c \in Callers :
        \/ NoOtherCall(c) /\ Call(c)
        \/ SeedRandom(c)
        \/ Draw(c)
        \/ Return(c)
    \/ (\A c \in Callers : gpc[c] \in {"idle", "done"}) /\ OtherDraw

SpecGen == InitGen /\ [][NextGen]_vars

(***************************************************************************)
(* Properties of the data access layer (SpecQuery).                        *)
(***************************************************************************)
Called == call # NoCall
CallDatesValid == StrptimeOk(call.start_date) /\ StrptimeOk(call.end_date)

\* what the function called returns for the same range with use_sample=True
SampleModeResult ==
    IF call.fn = "query_sopr"
    THEN query_sopr(call.start_date, call.end_date, TRUE, "ok", <<>>)
    ELSE query_prices(call.start_date, call.end_date, TRUE, "ok")

\* C1: with valid dates and use_sample=False, a live attempt that ends in any
\* exception makes query_sopr / query_prices return, without raising, the
\* frame the same function returns for the range with use_sample=True; and
\* a dashboard render never ends in the error state, whatever the live
\* attempts of its two loads do.
C1_FallbackEqualsSample ==
    /\ (Called /\ CallDatesValid /\ ~call.use_sample /\ call.outcome # "ok") =>
            /\ call.res.kind = "rows"
            /\ SampleModeResult.kind = "rows"
            /\ call.res.rows = SampleModeResult.rows
    /\ (render # NoRender) => render.state # "error"

C1_Witness ==
    /\ Called /\ CallDatesValid /\ ~call.use_sample
    /\ call.fn = "query_prices" /\ call.outcome = "GoogleCloudError"
    /\ call.res.kind = "rows" /\ Len(call.res.rows) >= 2

\* C2: a date that is no calendar date makes query_sopr / query_prices fail
\* with the invalid-date error (the ValueError of the validation, lines 47-51
\* and 121-125) for both values of use_sample.
C2_InvalidDateRaisesValueError ==
    (Called /\ ~CallDatesValid) => call.res.kind = "ValueError"

\* the rows of the sample frame of the function called, as (date, value) pairs
SamplePairs ==
    IF call.fn = "query_sopr"
    THEN {<<SAMPLE_SOPR_DATA[i].date, SAMPLE_SOPR_DATA[i].sopr>> :
              i \in 1..Len(SAMPLE_SOPR_DATA)}
    ELSE {<<SAMPLE_PRICES[i].date, SAMPLE_PRICES[i].price_usd>> :
              i \in 1..Len(SAMPLE_PRICES)}

ReturnedPairs ==
    IF call.fn = "query_sopr"
    THEN {<<call.res.rows[i].date, call.res.rows[i].sopr>> :
              i \in 1..Len(call.res.rows)}
    ELSE {<<call.res.rows[i].date, call.res.rows[i].price>> :
              i \in 1..Len(call.res.rows)}

CallInRange(d) == Ordinal(call.start_date) <= d /\ d <= Ordinal(call.end_date)

\* C3: for valid start_date <= end_date, a call with use_sample=True returns
\* exactly the rows of the sample series with start_date <= date <= end_date,
\* each once, and runs no live attempt.
C3_SampleFilterExact ==
    (/\ Called /\ CallDatesValid /\ call.use_sample
     /\ Ordinal(call.start_date) <= Ordinal(call.end_date)) =>
        /\ call.res.kind = "rows"
        /\ ReturnedPairs = {p \in SamplePairs : CallInRange(p[1])}
        /\ Len(call.res.rows) = Cardinality(ReturnedPairs)
        /\ call.res.attempts = 0 /\ call.res.issued = 0

C3_Witness ==
    /\ Called /\ CallDatesValid /\ call.use_sample
    /\ Ordinal(call.start_date) < Ordinal(call.end_date)
    /\ call.res.kind = "rows"
    /\ Len(call.res.rows) >= 2 /\ Len(call.res.rows) < SampleDays
    /\ \E i \in 1..Len(call.res.rows) : call.res.rows[i].date = Ordinal(call.start_date)
    /\ \E i \in 1..Len(call.res.rows) : call.res.rows[i].date = Ordinal(call.end_date)

\* C4: a call with use_sample=False and valid dates runs the live attempt
\* exactly once and sends at most one query; if the attempt fails the
\* function invokes itself exactly once with use_sample=True, and that
\* invocation runs no live attempt and no further fallback (depth 2 at most).
\* With invalid dates, and with use_sample=True, no live attempt is run.
C4_OneAttemptOneFallback ==
    Called =>
        /\ call.res.depth <= 2 /\ call.res.fallbacks <= 1
        /\ (CallDatesValid /\ ~call.use_sample) =>
              /\ call.res.attempts = 1
              /\ call.res.issued = (IF call.outcome \in QuerySent THEN 1 ELSE 0)
              /\ (call.outcome # "ok") =>
                    /\ call.res.fallbacks = 1 /\ call.res.depth = 2
                    /\ call.res.served = "sample"
              /\ (call.outcome = "ok") =>
                    /\ call.res.fallbacks = 0 /\ call.res.depth = 1
                    /\ call.res.served = "live"
        /\ (~CallDatesValid \/ call.use_sample) =>
              /\ call.res.attempts = 0 /\ call.res.issued = 0
              /\ call.res.fallbacks = 0 /\ call.res.depth = 1

C4_Witness ==
    /\ Called /\ CallDatesValid /\ ~call.use_sample
    /\ call.fn = "query_sopr" /\ call.outcome = "FileNotFoundError"
    /\ call.res.attempts = 1 /\ call.res.fallbacks = 1 /\ call.res.depth = 2

(***************************************************************************)
(* Properties of the price ingestion job (SpecJob).                        *)
(***************************************************************************)
\* the answers of Responses that are "yes" or "y" once trimmed and lower-cased
YesAnswers ==
    {<<"y", "e", "s">>, <<"y">>, <<"Y">>, <<" ", "Y", "e", "s", " ">>, <<"y", " ">>}

Answered(r) == jpc[r] # "idle" /\ jlog[r].asked = 1

\* C5: a run that found rows at Check and whose operator answers anything
\* but "yes" / "y" (trimmed, lower-cased) ends Cancelled, with the table as
\* it was at the start of the run: no fetch, no load, no row written.
C5_DeclineLeavesTable ==
    \A r \in Runs :
        /\ (Answered(r) /\ jlog[r].typed \notin YesAnswers) =>
              /\ jpc[r] = "Cancelled"
              /\ existing_rows[r] > 0
        /\ (jpc[r] = "Cancelled") =>
              /\ table = jlog[r].before
              /\ jlog[r].fetches = 0 /\ jlog[r].loads = 0 /\ jlog[r].written = 0

C5_Witness ==
    \E r \in Runs :
        /\ jpc[r] = "Cancelled" /\ existing_rows[r] = MaxBars
        /\ jlog[r].typed = <<"y", "e", "a", "h">>
        /\ table.rows # {}

\* C6: a run whose fetch returns no row ends in NoData without a load: the
\* table is as it was at the start of the run, also after a confirmed prompt.
C6_NoDataLeavesTable ==
    \A r \in Runs :
        /\ (jpc[r] # "idle" /\ jlog[r].fetches = 1 /\ jlog[r].raised = "none"
                /\ df[r] = {}) =>
              jpc[r] = "NoData"
        /\ (jpc[r] = "NoData") =>
              /\ table = jlog[r].before
              /\ jlog[r].loads = 0 /\ jlog[r].written = 0

C6_Witness ==
    \E r \in Runs :
        /\ jpc[r] = "NoData" /\ jlog[r].asked = 1
        /\ table.exists /\ table.rows # {}

\* C7: after a load that succeeded, the table holds exactly the rows fetched
\* in the run, and the count Verify reports is the number of fetched rows.
C7_LoadReplacesTable ==
    \A r \in Runs :
        /\ (jpc[r] \in {"verify", "Complete"}) =>
              /\ jlog[r].landed = 1
              /\ table = [exists |-> TRUE, rows |-> df[r]]
        /\ (jpc[r] = "Complete") =>
              /\ jlog[r].verifies = 1
              /\ final_count[r] = Cardinality(df[r])

C7_Witness ==
    \E r \in Runs :
        /\ jpc[r] = "Complete"
        /\ jlog[r].before.rows # {}
        /\ jlog[r].before.rows \cap df[r] = {}
        /\ final_count[r] = 1

\* C8: an exception in Fetch or Load ends the run as Failed; no step ran
\* twice, Verify did not run, and the table is as a whole either what it was
\* at the start of the run or the frame of the run.
C8_FailureIsFatalAndAtomic ==
    \A r \in Runs :
        /\ jlog[r].fetches <= 1 /\ jlog[r].loads <= 1 /\ jlog[r].verifies <= 1
        /\ (jpc[r] # "idle" /\ jlog[r].raised \in {"fetch", "load"}) =>
              /\ jpc[r] = "Failed"
              /\ jlog[r].verifies = 0
              /\ \/ table = jlog[r].before
                 \/ table = [exists |-> TRUE, rows |-> df[r]]
              /\ (jlog[r].raised = "fetch") =>
                    (table = jlog[r].before /\ jlog[r].loads = 0)

C8_Witness ==
    \E r \in Runs :
        /\ jpc[r] = "Failed" /\ jlog[r].raised = "load"
        /\ jlog[r].before.rows # {} /\ df[r] # jlog[r].before.rows
        /\ table = jlog[r].before

(***************************************************************************)
(* Properties of the sample data provider (SpecGen).                       *)
(***************************************************************************)
\* C9: every value recorded by generate_sample_sopr_data lies in
\* [0.85, 1.15], for every day_count and every stream of deltas.
C9_ValuesClamped ==
    \A c \in Callers :
        /\ \A i \in 1..Len(gvalues[c]) :
              gvalues[c][i] >= SoprLo /\ gvalues[c][i] <= SoprHi
        /\ \A i \in 1..Len(gresult[c]) :
              gresult[c][i].sopr >= SoprLo /\ gresult[c][i].sopr <= SoprHi
        /\ (gpc[c] = "done") => Len(gresult[c]) = gdays[c]

\* the walk sits on the upper boundary and is pushed against it again
C9_Witness ==
    \E c \in Callers :
        /\ gpc[c] = "done" /\ Len(gresult[c]) >= 2
        /\ \E i \in 1..(Len(gresult[c]) - 1) :
              /\ gresult[c][i].sopr = SoprHi
              /\ gresult[c][i + 1].sopr = SoprHi

\* C10: two calls made one after the other with the same day_count on the
\* same day return the same frame, whatever was drawn before each of them.
C10_SequentialCallsAgree ==
    \A c \in Callers : \A o \in Callers :
        (gpc[c] = "done" /\ gpc[o] = "done" /\ gdays[c] = gdays[o]) =>
            gresult[c] = gresult[o]

C10_Witness ==
    \E c \in Callers : \E o \in Callers :
        /\ gpc[c] = "done" /\ gpc[o] = "done" /\ gdays[c] = gdays[o]
        /\ gstart[c] # gstart[o]
        /\ Len(gresult[c]) >= 2 /\ gresult[c] = gresult[o]
        /\ gresult[c][1].sopr # gresult[c][2].sopr

(***************************************************************************)
(* Calls of the generator that overlap (SpecGenConc): two threads of the   *)
(* process are inside generate_sample_sopr_data at the same time and their *)
(* statements interleave; both use the one generator of the random module. *)
(***************************************************************************)
\* each of the two threads makes one call
NextGenConc ==
    \E c \in Callers :
        \/ gpc[c] = "idle" /\ Call(c)
        \/ SeedRandom(c)
        \/ Draw(c)
        \/ Return(c)

\* overlapping calls are explored for one stream of the generator
InitGenConc ==
    /\ \E t \in TodayChoices : Imported(SampleStream, t)
    /\ table = NoTable
    /\ NothingRunning

SpecGenConc == InitGenConc /\ [][NextGenConc]_vars

\* C11: a call of generate_sample_sopr_data shares no state with other calls:
\* whenever it returns, also when another call ran in between its
\* statements, it returns the series that a call run alone returns.
C11_CallsDoNotInterfere ==
    \A c \in Callers :
        (gpc[c] = "done") =>
            gresult[c] = generate_sample_sopr_data(uniformOut, today, gdays[c])

(***************************************************************************)
(* Further properties of the data access layer (SpecQuery).                *)
(***************************************************************************)
\* a call with valid start_date <= end_date whose live attempt failed
CallFellBack ==
    /\ Called /\ CallDatesValid /\ ~call.use_sample /\ call.outcome # "ok"
    /\ Ordinal(call.start_date) <= Ordinal(call.end_date)

\* the days of the sample series: the 30 days that end on the day of the import
SampleWindow == (Ordinal(today) - SampleDays + 1)..Ordinal(today)

\* C12 as stated: after a failed live attempt the frame returned for a valid
\* range with start_date <= end_date is not empty.
C12_FallbackNonEmpty ==
    CallFellBack => call.res.rows # <<>>

\* C12 as amended: after a failed live attempt the frame returned is not
\* empty exactly when the range holds one of the 30 days of the sample series.
C12_FallbackNonEmptyIffInWindow ==
    CallFellBack =>
        /\ call.res.kind = "rows"
        /\ (call.res.rows # <<>>) <=> (\E d \in SampleWindow : CallInRange(d))

C12_Witness ==
    /\ CallFellBack
    /\ Ordinal(call.start_date) < Ordinal(today) - SampleDays + 1
    /\ Len(call.res.rows) = 1
    /\ call.res.rows[1].date = Ordinal(call.end_date)

\* the live attempts of the two calls ended the same way, or there was none
SameEnding(first, second) ==
    \/ second.use_sample
    \/ ~(StrptimeOk(second.start_date) /\ StrptimeOk(second.end_date))
    \/ (first.outcome = "ok") <=> (second.outcome = "ok")

\* C13 as stated: with the warehouse unchanged, a repeated call with the same
\* arguments returns what the call before it returned.
C13_RepeatedCallsAgree ==
    (prev # NoCall) =>
        /\ call.res.kind = prev.res.kind
        /\ call.res.rows = prev.res.rows

\* C13 as amended: no step of the data access layer or of the dashboard's
\* loading changes the module-level sample frames or the warehouse table,
\* and a repeated call with the same arguments returns what the call before
\* it returned whenever the live attempts of both ended the same way.
C13_ReadsAreReadOnly ==
    [][/\ SAMPLE_SOPR_DATA' = SAMPLE_SOPR_DATA
       /\ SAMPLE_PRICES' = SAMPLE_PRICES
       /\ table' = table
       /\ (prev' # NoCall /\ SameEnding(prev', call')) =>
             /\ call'.res.kind = prev'.res.kind
             /\ call'.res.rows = prev'.res.rows]_vars

C13_Witness ==
    /\ prev # NoCall
    /\ prev.fn = "query_sopr" /\ ~prev.use_sample
    /\ prev.outcome = "GoogleCloudError" /\ call.outcome = "FileNotFoundError"
    /\ call.res.rows = prev.res.rows /\ Len(call.res.rows) >= 2
    /\ SAMPLE_SOPR_DATA = generate_sample_sopr_data(uniformOut, today, SampleDays)

\* the frame the warehouse holds for the call: what a live query returns
LiveFrame ==
    IF call.fn = "query_sopr" THEN call.live
    ELSE PriceQuery(call.start_date, call.end_date)

\* C14: with use_sample=False and valid dates, a live attempt that succeeds
\* is returned as it is, with or without rows; the function falls back to
\* the sample data if and only if the live attempt raised.
C14_FallbackOnlyOnException ==
    (Called /\ CallDatesValid /\ ~call.use_sample) =>
        /\ (call.res.fallbacks = 1) <=> (call.outcome # "ok")
        /\ (call.res.served = "sample") <=> (call.outcome # "ok")
        /\ (call.outcome = "ok") =>
              /\ call.res.kind = "rows"
              /\ call.res.served = "live"
              /\ call.res.rows = LiveFrame

\* an empty live frame is returned although the sample has rows in the range
C14_Witness ==
    /\ Called /\ CallDatesValid /\ ~call.use_sample
    /\ call.outcome = "ok" /\ call.res.served = "live"
    /\ call.res.rows = <<>>
    /\ SampleModeResult.rows # <<>>

\* the run has counted the rows of the table
PastCheck(r) ==
    \/ jpc[r] \in {"confirm", "fetch", "load", "verify", "Cancelled", "NoData", "Complete"}
    \/ jpc[r] = "Failed" /\ jlog[r].raised # "config"

\* the run has reached the fetch
ReachedFetch(r) == jpc[r] = "fetch" \/ jlog[r].fetches >= 1

\* C15: a table that does not exist counts as zero rows and is no error; the
\* operator is asked if and only if the count is more than zero, at most once,
\* and with a count of zero the run goes on to the fetch without asking.
C15_AskedIffRowsExist ==
    \A r \in Runs : PastCheck(r) =>
        /\ existing_rows[r] =
              (IF jlog[r].before.exists THEN Cardinality(jlog[r].before.rows) ELSE 0)
        /\ (~jlog[r].before.exists) => (existing_rows[r] = 0 /\ ReachedFetch(r))
        /\ jlog[r].asked <= 1
        /\ (jpc[r] = "confirm") => (existing_rows[r] > 0 /\ jlog[r].asked = 0)
        /\ (jpc[r] # "confirm") => ((jlog[r].asked = 1) <=> (existing_rows[r] > 0))
        /\ (existing_rows[r] = 0) => (jlog[r].asked = 0 /\ ReachedFetch(r))
        /\ (jlog[r].asked = 1 /\ ~Affirmative(response[r])) => jpc[r] = "Cancelled"

\* a run found no table, was not asked and is at the fetch
C15_Witness ==
    \E r \in Runs :
        /\ jpc[r] = "fetch"
        /\ ~jlog[r].before.exists
        /\ existing_rows[r] = 0
        /\ jlog[r].asked = 0

Range(rows) == {rows[i] : i \in 1..Len(rows)}

\* the row of a frame with the latest date, and the one with the earliest
LatestRow(rows) == CHOOSE r \in Range(rows) : \A o \in Range(rows) : o.date <= r.date
EarliestRow(rows) == CHOOSE r \in Range(rows) : \A o \in Range(rows) : r.date <= o.date

\* C16: whichever path served the series, the current SOPR and the current
\* price of the metrics row are the values at the latest date of the returned
\* series, and the price change compares the latest price with the earliest.
C16_CurrentIsLatest ==
    (render # NoRender /\ render.state = "metrics") =>
        LET sopr == render.sopr_df.rows
            prices == render.prices_df.rows
        IN  /\ render.metrics.current_sopr = LatestRow(sopr).sopr
            /\ (prices # <<>>) =>
                  /\ render.metrics.current_price = LatestRow(prices).price
                  /\ (Len(prices) > 1) =>
                        render.metrics.price_change =
                            PercentChange(LatestRow(prices).price, EarliestRow(prices).price)

\* the same statement for the renders whose prices were served live
C16_CurrentIsLatestWhenLive ==
    (render # NoRender /\ render.state = "metrics"
        /\ render.prices_df.served = "live" /\ Len(render.prices_df.rows) > 1) =>
        /\ render.metrics.current_price = LatestRow(render.prices_df.rows).price
        /\ render.metrics.price_change =
              PercentChange(LatestRow(render.prices_df.rows).price,
                            EarliestRow(render.prices_df.rows).price)

\* two runs of the script side by side on the same table, each run once
NextJobConc ==
    \E r \in Runs :
        \/ Start(r)
        \/ Check(r)
        \/ Confirm(r)
        \/ FetchOk(r)
        \/ FetchRaises(r)
        \/ LoadOk(r)
        \/ LoadRaises(r)
        \/ Verify(r)

SpecJobConc == InitJob /\ [][NextJobConc]_vars

\* C17: whenever the load of a run has replaced a table that held rows at the
\* moment of the load, the operator gave an affirmative answer in that run;
\* this is to hold for every interleaving of two runs.
C17_NoOverwriteWithoutConfirmation ==
    \A r \in Runs :
        (jpc[r] # "idle" /\ jlog[r].landed >= 1 /\ jlog[r].replaced > 0) =>
            (jlog[r].asked = 1 /\ Affirmative(response[r]))

====
